---- MODULE Spec2Model ----
(***************************************************************************)
(* HomeHelp.io: the Streamlit metro analyzer (app/home_analyzer_app.py)    *)
(* and the Flask analysis backend (homeanalyzer/backend/                   *)
(* app_with_custom_ai.py, zillow_ai_model.py) as state machines.           *)
(*                                                                         *)
(* Numbers.  A Python/numpy float is modelled as an extended rational      *)
(* <<n, d>>: d > 0 and gcd(n, d) = 1 for a finite value, <<1, 0>> for      *)
(* +inf, <<-1, 0>> for -inf and <<0, 0>> for NaN (pandas' missing value).  *)
(* Arithmetic is exact and follows the IEEE rules for the non-finite       *)
(* values; binary rounding is not modelled.  Money is in dollars.          *)
(***************************************************************************)
EXTENDS Integers, Sequences, FiniteSets, TLC

VARIABLES
    csv,            \* the file at DATA_PATH: [columns, rows]
    metro,          \* load_data's table (a sequence of records)
    latest_date,    \* load_data's second result
    state,          \* st.selectbox("State")
    region,         \* st.selectbox("Metro / City")
    list_price,     \* st.number_input("List price ($)")
    sqft,           \* st.number_input("Interior sqft")
    beds,           \* st.number_input("Bedrooms")
    baths,          \* st.number_input("Bathrooms"), a rational
    script,         \* "ok", or "error" when the script run raised
    valuation,      \* the "Listing valuation" block of the last run, or NoValuation
    tmp,            \* the ranking's working copy with its derived columns
    shown,          \* the dataframe the ranking displays
    artifacts,      \* backend: the three model files exist on disk
    model_loaded,   \* backend: CustomAIAnalyzer.model_loaded
    artifact_loads, \* backend: completed reads of the artifacts from disk
    n_requests,     \* backend: analyze requests served
    locals,         \* backend: analyze_property's locals in the last request
    response        \* backend: the last request's outcome

appVars == <<csv, metro, latest_date, state, region, list_price, sqft, beds,
             baths, script, valuation, tmp, shown>>
apiVars == <<artifacts, model_loaded, artifact_loads, n_requests, locals, response>>
vars == <<csv, metro, latest_date, state, region, list_price, sqft, beds,
          baths, script, valuation, tmp, shown,
          artifacts, model_loaded, artifact_loads, n_requests, locals, response>>

---------------------------------------------------------------------------
(* Extended rationals *)

Abs(x) == IF x < 0 THEN -x ELSE x
Sgn(x) == IF x < 0 THEN -1 ELSE IF x > 0 THEN 1 ELSE 0

RECURSIVE Gcd(_, _)
Gcd(a, b) == IF b = 0 THEN a ELSE Gcd(b, a % b)

Rat(n, d) ==
    IF d = 0 THEN <<Sgn(n), 0>>
    ELSE LET g == Gcd(Abs(n), Abs(d))
             s == IF d < 0 THEN -1 ELSE 1
         IN  <<(s * n) \div g, (s * d) \div g>>

NaN    == <<0, 0>>
PosInf == <<1, 0>>
NegInf == <<-1, 0>>
Zero   == <<0, 1>>
One    == <<1, 1>>
Int2R(i) == <<i, 1>>

IsNaN(x)    == x = NaN
IsInf(x)    == x = PosInf \/ x = NegInf
IsFinite(x) == x[2] # 0

RMul(x, y) ==
    IF x[2] = 0 \/ y[2] = 0 THEN <<Sgn(x[1]) * Sgn(y[1]), 0>>
    ELSE LET g1 == Gcd(Abs(x[1]), y[2])
             g2 == Gcd(Abs(y[1]), x[2])
         IN  Rat((x[1] \div g1) * (y[1] \div g2), (x[2] \div g2) * (y[2] \div g1))

RRecip(y) ==
    IF y[2] = 0 THEN (IF y[1] = 0 THEN NaN ELSE Zero)
    ELSE IF y[1] = 0 THEN PosInf
    ELSE Rat(y[2], y[1])

RDiv(x, y) == RMul(x, RRecip(y))

RAdd(x, y) ==
    IF x[2] = 0 /\ y[2] = 0 THEN (IF x[1] = y[1] THEN x ELSE NaN)
    ELSE IF x[2] = 0 THEN x
    ELSE IF y[2] = 0 THEN y
    ELSE LET g == Gcd(x[2], y[2])
         IN  Rat(x[1] * (y[2] \div g) + y[1] * (x[2] \div g), (x[2] \div g) * y[2])

RNeg(x) == <<-x[1], x[2]>>
RSub(x, y) == RAdd(x, RNeg(y))

\* Python's and numpy's "<": false when either side is NaN.
RLt(x, y) ==
    IF IsNaN(x) \/ IsNaN(y) THEN FALSE
    ELSE IF x[2] = 0 \/ y[2] = 0
         THEN (IF x[2] = 0 /\ y[2] = 0 THEN x[1] < y[1]
               ELSE IF x[2] = 0 THEN x[1] < 0
               ELSE y[1] > 0)
    ELSE x[1] * y[2] < y[1] * x[2]

RGt(x, y) == RLt(y, x)
RLe(x, y) == ~IsNaN(x) /\ ~IsNaN(y) /\ ~RLt(y, x)
RGe(x, y) == RLe(y, x)

---------------------------------------------------------------------------
(* The input file *)

NA == "NaN"     \* a missing RegionName / StateName cell

ExpectedCols == {"zhvi", "zori", "inventory", "sales_count",
                 "market_temp_index", "zhvi_growth", "RegionName", "StateName"}

CsvRow(d, r, s, v, z, inv, sc, mti, g) ==
    [date |-> d, RegionName |-> r, StateName |-> s, zhvi |-> v, zori |-> z,
     inventory |-> inv, sales_count |-> sc, market_temp_index |-> mti,
     zhvi_growth |-> g]

\* The rows the input files are cut from: a file is any selection of at most
\* MaxRows of these, in this order.
ReferenceRows == <<
    CsvRow(2, "Seattle",  "Washington", Int2R(700000), Int2R(2000), Int2R(100),
           Int2R(50), Int2R(50), <<1, 2>>),
    CsvRow(2, "Tacoma",   "Washington", Int2R(300000), Int2R(1500), Int2R(100),
           Int2R(25), Int2R(40), One),
    CsvRow(2, "Portland", "Oregon",     Int2R(700000), Int2R(0), Int2R(0),
           Int2R(10), NaN, NaN),
    CsvRow(2, "Seattle",  "Washington", Int2R(650000), Int2R(2000), Int2R(100),
           Int2R(50), Int2R(50), <<1, 2>>),
    CsvRow(2, "Seattle",  "Washington", Int2R(700000), Int2R(2000), Int2R(100),
           Int2R(50), Int2R(50), <<1, 2>>),
    CsvRow(2, NA,         "Washington", Int2R(500000), Int2R(2500), Int2R(80),
           Int2R(40), Int2R(55), <<1, 5>>),
    CsvRow(1, "Spokane",  "Washington", Int2R(200000), Int2R(1000), Int2R(60),
           Int2R(30), Int2R(30), <<1, 2>>),
    CsvRow(2, "Eugene",   "Oregon",     Int2R(450000), Int2R(1800), Int2R(200),
           Int2R(150), Int2R(60), <<3, 2>>),
    CsvRow(2, "Spokane",  "Washington", NaN, Int2R(1000), Int2R(0),
           Int2R(0), Int2R(60), Zero) >>

MaxRows == 3

\* Strictly increasing index sequences of length at most n over 1..m.
RECURSIVE Selections(_, _, _)
Selections(lo, m, n) ==
    IF n = 0 THEN {<<>>}
    ELSE {<<>>} \cup UNION { { <<i>> \o t : t \in Selections(i + 1, m, n - 1) }
                             : i \in lo..m }

\* The column sets a file may come with: all of them, without the two market
\* signals, or without StateName.
ColumnSets == { ExpectedCols \cup {"date"},
                (ExpectedCols \cup {"date"}) \ {"market_temp_index", "zhvi_growth"},
                (ExpectedCols \cup {"date"}) \ {"StateName"} }

CsvFiles ==
    { [columns |-> cs, rows |-> [k \in 1..Len(sel) |-> ReferenceRows[sel[k]]]]
      : cs \in ColumnSets, sel \in Selections(1, Len(ReferenceRows), MaxRows) }

---------------------------------------------------------------------------
(* load_data *)

NoDate == 0     \* pandas' NaT: the maximum of an empty date column

RECURSIVE SeqMax(_, _)
SeqMax(s, acc) ==
    IF s = <<>> THEN acc
    ELSE SeqMax(Tail(s), IF Head(s) > acc THEN Head(s) ELSE acc)

\* DataFrame.drop_duplicates(): keep the first of the rows equal in every column
\* (missing cells compare equal).
RECURSIVE DropDuplicates(_, _)
DropDuplicates(s, seen) ==
    IF s = <<>> THEN <<>>
    ELSE IF Head(s) \in seen THEN DropDuplicates(Tail(s), seen)
    ELSE <<Head(s)>> \o DropDuplicates(Tail(s), seen \cup {Head(s)})

MetroRecord(r, cols) ==
    [RegionName        |-> IF "RegionName" \in cols THEN r.RegionName ELSE NA,
     StateName         |-> IF "StateName" \in cols THEN r.StateName ELSE NA,
     zhvi              |-> IF "zhvi" \in cols THEN r.zhvi ELSE NaN,
     zori              |-> IF "zori" \in cols THEN r.zori ELSE NaN,
     inventory         |-> IF "inventory" \in cols THEN r.inventory ELSE NaN,
     sales_count       |-> IF "sales_count" \in cols THEN r.sales_count ELSE NaN,
     market_temp_index |-> IF "market_temp_index" \in cols
                           THEN r.market_temp_index ELSE NaN,
     zhvi_growth       |-> IF "zhvi_growth" \in cols THEN r.zhvi_growth ELSE NaN]

LatestDate(file) ==
    SeqMax([k \in 1..Len(file.rows) |-> file.rows[k].date], NoDate)

\* The file without the filter of line 12.
LatestRows_All(file) == file.rows

LatestRows(file) ==
    LET IsLatest(r) == r.date = LatestDate(file)
    IN  SelectSeq(file.rows, IsLatest)

Project(file) ==
    LET latest == LatestRows(file)
    IN  [k \in 1..Len(latest) |-> MetroRecord(latest[k], file.columns)]

\* dropna(subset=["RegionName"]).
DropNaKeys_RegionOnly(t) ==
    LET HasKeys(r) == r.RegionName # NA
    IN  SelectSeq(t, HasKeys)

DropNaKeys(t) ==
    LET HasKeys(r) == r.RegionName # NA /\ r.StateName # NA
    IN  SelectSeq(t, HasKeys)

load_data(file) == DropNaKeys(DropDuplicates(Project(file), {}))

---------------------------------------------------------------------------
(* The valuation formulas *)

\* x ** 0.72 to two decimals (1 ** 0.72 is exactly 1.0), for the ratios
\* sqft / 1500 of the areas in SizeSamples.
Elasticity(x) ==
    CASE x = Rat(200, 1500)   -> Rat(23, 100)
      [] x = Rat(750, 1500)   -> Rat(61, 100)
      [] x = Rat(1400, 1500)  -> Rat(95, 100)
      [] x = One              -> One
      [] x = Rat(3000, 1500)  -> Rat(165, 100)
      [] x = Rat(20000, 1500) -> Rat(646, 100)

SizeSamples == {200, 750, 1400, 1500, 3000, 20000}

\* No size adjustment.
size_adjustment_Flat(a) == One

size_adjustment(a) == Elasticity(RDiv(Int2R(a), Int2R(1500)))

\* The two bumps with their coefficients exchanged.
feature_adjustment_Swapped(b, ba) ==
    LET bed_bump  == RMul(Rat(5, 100), RSub(Int2R(b), Int2R(3)))
        bath_bump == RMul(Rat(35, 1000), RSub(ba, Int2R(2)))
    IN  RAdd(RAdd(One, bed_bump), bath_bump)

\* bed_base = 4 in place of 3.
feature_adjustment_BedBase4(b, ba) ==
    LET bed_bump  == RMul(Rat(35, 1000), RSub(Int2R(b), Int2R(4)))
        bath_bump == RMul(Rat(5, 100), RSub(ba, Int2R(2)))
    IN  RAdd(RAdd(One, bed_bump), bath_bump)

feature_adjustment(b, ba) ==
    LET bed_bump  == RMul(Rat(35, 1000), RSub(Int2R(b), Int2R(3)))
        bath_bump == RMul(Rat(5, 100), RSub(ba, Int2R(2)))
    IN  RAdd(RAdd(One, bed_bump), bath_bump)

\* market_heat_multiplier without the pd.isna guard.
market_heat_multiplier_NoGuard(market_temp_index) ==
    RAdd(One, RMul(Rat(3, 100), RDiv(market_temp_index, Int2R(10))))

market_heat_multiplier(market_temp_index) ==
    IF IsNaN(market_temp_index) THEN One
    ELSE RAdd(One, RMul(Rat(3, 100), RDiv(market_temp_index, Int2R(10))))

\* The growth read as a percentage: 1 + 0.02 * (100 * zhvi_growth).
growth_premium_Percent(zhvi_growth) ==
    IF IsNaN(zhvi_growth) THEN One
    ELSE RAdd(One, RMul(Rat(2, 100), RMul(zhvi_growth, Int2R(100))))

growth_premium(zhvi_growth) ==
    IF IsNaN(zhvi_growth) THEN One
    ELSE RAdd(One, RMul(Rat(2, 100), RDiv(zhvi_growth, One)))

\* Python's builtin min(a, b) and max(a, b): the first argument unless the
\* second compares smaller (larger); a comparison with NaN is false.
PyMin(a, b) == IF RLt(b, a) THEN b ELSE a
PyMax(a, b) == IF RGt(b, a) THEN b ELSE a

\* deal_score without the lower clamp.
deal_score_NoFloor(edge) == PyMin(One, RDiv(edge, Rat(5, 100)))

deal_score(edge) == PyMax(Zero, PyMin(One, RDiv(edge, Rat(5, 100))))

NoValuation == [shown |-> FALSE]

Valuation(row, lp, a, b, ba) ==
    LET base_zhvi  == row.zhvi
        f_size     == size_adjustment(a)
        f_feat     == feature_adjustment(b, ba)
        f_heat     == market_heat_multiplier(row.market_temp_index)
        f_growth   == growth_premium(row.zhvi_growth)
        fair_value == RMul(RMul(RMul(RMul(base_zhvi, f_size), f_feat), f_heat), f_growth)
        edge       == RDiv(RSub(fair_value, Int2R(lp)), Int2R(lp))
    IN  [shown |-> TRUE, base_zhvi |-> base_zhvi, size_factor |-> f_size,
         feature_factor |-> f_feat, market_heat_factor |-> f_heat,
         growth_factor |-> f_growth, fair_value |-> fair_value,
         list_price |-> lp, edge |-> edge, deal_score |-> deal_score(edge)]

---------------------------------------------------------------------------
(* The metro ranking *)

\* The table without the replace of line 109.
\* The one element of a singleton set.
Only(S) == CHOOSE x \in S : TRUE

ReplaceInf_Skipped(x) == x

\* DataFrame.replace([np.inf, -np.inf], np.nan) on one cell.
ReplaceInf(x) == IF IsInf(x) THEN NaN ELSE x

Derived(r) ==
    [RegionName |-> r.RegionName, StateName |-> r.StateName,
     zhvi |-> ReplaceInf(r.zhvi), zori |-> ReplaceInf(r.zori),
     inventory |-> ReplaceInf(r.inventory),
     sales_count |-> ReplaceInf(r.sales_count),
     market_temp_index |-> ReplaceInf(r.market_temp_index),
     zhvi_growth |-> ReplaceInf(r.zhvi_growth),
     price_to_rent |-> ReplaceInf(RDiv(r.zhvi, r.zori)),
     sales_inventory_ratio |-> ReplaceInf(RDiv(r.sales_count, r.inventory))]

\* Series.min() and Series.max(): over the cells that are not missing, NaN
\* when there is none.
RECURSIVE ColMin(_, _, _)
ColMin(t, c, acc) ==
    IF t = <<>> THEN acc
    ELSE LET v == Head(t)[c]
         IN  ColMin(Tail(t), c,
                    IF IsNaN(v) THEN acc
                    ELSE IF IsNaN(acc) \/ RLt(v, acc) THEN v ELSE acc)

RECURSIVE ColMax(_, _, _)
ColMax(t, c, acc) ==
    IF t = <<>> THEN acc
    ELSE LET v == Head(t)[c]
         IN  ColMax(Tail(t), c,
                    IF IsNaN(v) THEN acc
                    ELSE IF IsNaN(acc) \/ RGt(v, acc) THEN v ELSE acc)

ScoreInputs == {"price_to_rent", "zhvi_growth", "market_temp_index",
                "sales_inventory_ratio"}

\* tmp[c].min() and tmp[c].max() of the four columns the score reads.
ColumnRange(t) ==
    [c \in ScoreInputs |-> [lo |-> ColMin(t, c, NaN), hi |-> ColMax(t, c, NaN)]]

\* (x - min) / (max - min) for a cell x of column c, rg the ranges of the table.
\* The column shifted to its minimum but not divided by its range.
MinMax_NoRange(rg, c, x) == RSub(x, rg[c].lo)

MinMax(rg, c, x) == RDiv(RSub(x, rg[c].lo), RSub(rg[c].hi, rg[c].lo))

\* The score with price_to_rent not inverted.
Score_NotInverted(rg, r) ==
    RAdd(RAdd(RAdd(
        RMul(MinMax(rg, "price_to_rent", r.price_to_rent), Rat(4, 10)),
        RMul(MinMax(rg, "zhvi_growth", r.zhvi_growth), Rat(25, 100))),
        RMul(MinMax(rg, "market_temp_index", r.market_temp_index), Rat(2, 10))),
        RMul(MinMax(rg, "sales_inventory_ratio", r.sales_inventory_ratio), Rat(15, 100)))

\* The score summed with the missing terms skipped.
Score_SkipNa(rg, r) ==
    LET Z(x) == IF IsNaN(x) THEN Zero ELSE x
    IN  RAdd(RAdd(RAdd(
        Z(RMul(RSub(One, MinMax(rg, "price_to_rent", r.price_to_rent)), Rat(4, 10))),
        Z(RMul(MinMax(rg, "zhvi_growth", r.zhvi_growth), Rat(25, 100)))),
        Z(RMul(MinMax(rg, "market_temp_index", r.market_temp_index), Rat(2, 10)))),
        Z(RMul(MinMax(rg, "sales_inventory_ratio", r.sales_inventory_ratio), Rat(15, 100))))

Score(rg, r) ==
    RAdd(RAdd(RAdd(
        RMul(RSub(One, MinMax(rg, "price_to_rent", r.price_to_rent)), Rat(4, 10)),
        RMul(MinMax(rg, "zhvi_growth", r.zhvi_growth), Rat(25, 100))),
        RMul(MinMax(rg, "market_temp_index", r.market_temp_index), Rat(2, 10))),
        RMul(MinMax(rg, "sales_inventory_ratio", r.sales_inventory_ratio), Rat(15, 100)))

WithScore(rg, r) ==
    [RegionName |-> r.RegionName, StateName |-> r.StateName,
     zhvi |-> r.zhvi, zori |-> r.zori, inventory |-> r.inventory,
     sales_count |-> r.sales_count, market_temp_index |-> r.market_temp_index,
     zhvi_growth |-> r.zhvi_growth, price_to_rent |-> r.price_to_rent,
     sales_inventory_ratio |-> r.sales_inventory_ratio, score |-> Score(rg, r)]

\* tmp after line 120: the copy of metro with the two ratios and the score.
\* The table t (the copy with the two ratios) with its score column; the
\* ranges are taken once for the table.
ScoredRows(t) ==
    Only({ [k \in 1..Len(t) |-> WithScore(rg, t[k])] : rg \in {ColumnRange(t)} })

\* The ranking computed over the metros of the selected state only.
Scored_OfSelection(m) ==
    LET InState(r) == r.StateName = state
    IN  Only({ ScoredRows(t) :
               t \in {[k \in 1..Len(SelectSeq(m, InState)) |->
                          Derived(SelectSeq(m, InState)[k])]} })

Scored(m) == Only({ ScoredRows(t) : t \in {[k \in 1..Len(m) |-> Derived(m[k])]} })

\* sort_values("score", ascending=False): the rows with a score in descending
\* order (rows of equal score in either order: the default sort is not stable),
\* then the rows without a score, in the table's order.
\* na_position = "first".
PlaceNaN_First(order, without) == without \o order

\* na_position = "last", the default.
PlaceNaN(order, without) == order \o without

\* The descending orders of the rows S of t: any row no other row of S
\* outscores, then a descending order of the rest.
RECURSIVE Descending(_, _)
Descending(t, S) ==
    IF S = {} THEN {<<>>}
    ELSE UNION { { <<k>> \o p : p \in Descending(t, S \ {k}) }
                 : k \in { i \in S : \A j \in S : ~RLt(t[i].score, t[j].score) } }

SortValues(t) ==
    LET idx      == 1..Len(t)
        def      == { k \in idx : ~IsNaN(t[k].score) }
        HasNone(k) == IsNaN(t[k].score)
        undef    == SelectSeq([k \in idx |-> k], HasNone)
    IN  { [k \in idx |-> t[PlaceNaN(p, undef)[k]]] : p \in Descending(t, def) }

TopN == 25

\* DataFrame.tail(25) in place of head(25).
HeadRows_Tail(t) == SubSeq(t, IF Len(t) < TopN THEN 1 ELSE Len(t) - TopN + 1, Len(t))

HeadRows(t) == SubSeq(t, 1, IF Len(t) < TopN THEN Len(t) ELSE TopN)

\* numpy's round to three decimals (halves to the even neighbour).
Round3(x) ==
    IF ~IsFinite(x) \/ x[2] = 1 THEN x
    ELSE LET f == (x[1] * 1000) \div x[2]
             r == (x[1] * 1000) % x[2]
             up == 2 * r > x[2] \/ (2 * r = x[2] /\ f % 2 = 1)
         IN  Rat(IF up THEN f + 1 ELSE f, 1000)

Display(r) ==
    [RegionName |-> r.RegionName, StateName |-> r.StateName,
     zhvi |-> Round3(r.zhvi), zori |-> Round3(r.zori),
     price_to_rent |-> Round3(r.price_to_rent),
     sales_inventory_ratio |-> Round3(r.sales_inventory_ratio),
     zhvi_growth |-> Round3(r.zhvi_growth),
     market_temp_index |-> Round3(r.market_temp_index),
     score |-> Round3(r.score)]

\* The dataframes line 122-126 may display for the scored table t.
Ranking(t) ==
    { [k \in 1..Len(HeadRows(s)) |-> Display(HeadRows(s)[k])] : s \in SortValues(t) }

---------------------------------------------------------------------------
(* The widgets *)

\* Python's sorted() on the names the files use.
NameOrder == <<"Alaska", "Boise", "Clinton", "Eugene", "Franklin", "Idaho",
               "Madison", "Montana", "Nevada", "Oregon", "Portland", "Seattle",
               "Spokane", "Springfield", "Tacoma", "Utah", "Washington",
               "Wyoming">>

Sorted(S) ==
    LET In(x) == x \in S
    IN  SelectSeq(NameOrder, In)

States(m) == Sorted({ m[k].StateName : k \in 1..Len(m) } \ {NA})
Cities(m, st) ==
    Sorted({ m[k].RegionName : k \in { i \in 1..Len(m) : m[i].StateName = st } })

InSeq(x, q) == \E k \in 1..Len(q) : q[k] = x

\* st.selectbox(label, options, index=options.index(want) if want in options else 0);
\* NA stands for the None an empty option list returns.
SelectboxDefault(options, want) ==
    IF options = <<>> THEN NA
    ELSE IF InSeq(want, options) THEN want ELSE options[1]

\* A number_input without bounds.
NumberInputAccepts_Any(v, lo, hi) == TRUE

\* st.number_input commits a value only inside [min_value, max_value].
NumberInputAccepts(v, lo, hi) == lo <= v /\ v <= hi

ListPriceMin == 50000
ListPriceMax == 10000000
ListPriceDefault == 700000
SqftMin == 200
SqftMax == 20000
SqftDefault == 1400
BedsMin == 0
BedsMax == 10
BedsDefault == 3
BathsMin == Zero
BathsMax == Int2R(10)
BathsDefault == Int2R(2)

\* The values the user enters in the model.
ListPriceEntries == {0, 50000, 700000}
SqftEntries      == {1400, 1500}
BedsEntries      == {3, 4}
BathsEntries     == {Int2R(2), Int2R(3)}

---------------------------------------------------------------------------
(* One run of the script (lines 48-128) on the current widget values *)

NoTable == <<>>

\* metro[(RegionName == region) & (StateName == state)].iloc[0]
Matching(m, st, rg) ==
    LET Hit(r) == r.RegionName = rg /\ r.StateName = st
    IN  SelectSeq(m, Hit)

Run(m, st, rg, lp, a, b, ba, go) ==
    IF Matching(m, st, rg) = <<>>
    THEN /\ script' = "error"
         /\ valuation' = NoValuation
         /\ tmp' = NoTable
         /\ shown' = NoTable
    ELSE /\ script' = "ok"
         /\ valuation' = IF go THEN Valuation(Matching(m, st, rg)[1], lp, a, b, ba)
                         ELSE NoValuation
         /\ tmp' = Scored(m)
         /\ shown' \in Ranking(tmp')

AppStart(files) ==
    /\ csv \in files
    /\ metro = load_data(csv)
    /\ latest_date = LatestDate(csv)
    /\ state = SelectboxDefault(States(metro), "Washington")
    /\ region = SelectboxDefault(Cities(metro, state), "Seattle")
    /\ list_price = ListPriceDefault
    /\ sqft = SqftDefault
    /\ beds = BedsDefault
    /\ baths = BathsDefault
    /\ valuation = NoValuation
    /\ IF Matching(metro, state, region) = <<>>
       THEN script = "error" /\ tmp = NoTable /\ shown = NoTable
       ELSE script = "ok" /\ tmp = Scored(metro) /\ shown \in Ranking(tmp)

AppInit == AppStart(CsvFiles)

ApiIdle ==
    /\ artifacts = FALSE
    /\ model_loaded = FALSE
    /\ artifact_loads = 0
    /\ n_requests = 0
    /\ locals = [path |-> "none"]
    /\ response = [kind |-> "none"]

Init == AppInit /\ ApiIdle

SelectState(s) ==
    /\ InSeq(s, States(metro))
    /\ s # state
    /\ state' = s
    /\ region' = SelectboxDefault(Cities(metro, s), "Seattle")
    /\ Run(metro, s, region', list_price, sqft, beds, baths, FALSE)
    /\ UNCHANGED <<csv, metro, latest_date, list_price, sqft, beds, baths>>
    /\ UNCHANGED apiVars

SelectRegion(r) ==
    /\ InSeq(r, Cities(metro, state))
    /\ r # region
    /\ region' = r
    /\ Run(metro, state, r, list_price, sqft, beds, baths, FALSE)
    /\ UNCHANGED <<csv, metro, latest_date, state, list_price, sqft, beds, baths>>
    /\ UNCHANGED apiVars

SetListPrice(v) ==
    /\ NumberInputAccepts(v, ListPriceMin, ListPriceMax)
    /\ v # list_price
    /\ list_price' = v
    /\ Run(metro, state, region, v, sqft, beds, baths, FALSE)
    /\ UNCHANGED <<csv, metro, latest_date, state, region, sqft, beds, baths>>
    /\ UNCHANGED apiVars

SetSqft(v) ==
    /\ NumberInputAccepts(v, SqftMin, SqftMax)
    /\ v # sqft
    /\ sqft' = v
    /\ Run(metro, state, region, list_price, v, beds, baths, FALSE)
    /\ UNCHANGED <<csv, metro, latest_date, state, region, list_price, beds, baths>>
    /\ UNCHANGED apiVars

SetBeds(v) ==
    /\ NumberInputAccepts(v, BedsMin, BedsMax)
    /\ v # beds
    /\ beds' = v
    /\ Run(metro, state, region, list_price, sqft, v, baths, FALSE)
    /\ UNCHANGED <<csv, metro, latest_date, state, region, list_price, sqft, baths>>
    /\ UNCHANGED apiVars

SetBaths(v) ==
    /\ RLe(BathsMin, v) /\ RLe(v, BathsMax)
    /\ v # baths
    /\ baths' = v
    /\ Run(metro, state, region, list_price, sqft, beds, v, FALSE)
    /\ UNCHANGED <<csv, metro, latest_date, state, region, list_price, sqft, beds>>
    /\ UNCHANGED apiVars

\* st.button("Score this listing"): true in the run the click starts only.
ClickGo ==
    /\ Run(metro, state, region, list_price, sqft, beds, baths, TRUE)
    /\ UNCHANGED <<csv, metro, latest_date, state, region, list_price, sqft,
                   beds, baths>>
    /\ UNCHANGED apiVars

Next ==
    \/ \E s \in { NameOrder[k] : k \in 1..Len(NameOrder) } : SelectState(s)
    \/ \E r \in { NameOrder[k] : k \in 1..Len(NameOrder) } : SelectRegion(r)
    \/ \E v \in ListPriceEntries : SetListPrice(v)
    \/ \E v \in SqftEntries : SetSqft(v)
    \/ \E v \in BedsEntries : SetBeds(v)
    \/ \E v \in BathsEntries : SetBaths(v)
    \/ ClickGo

Spec == Init /\ [][Next]_vars

---------------------------------------------------------------------------
(* The app on a national file: the selections and the button *)

\* A national file: one row per metro for the latest month, more metros than
\* the ranking displays.  Row 6 repeats the figures of row 5 under another
\* name and row 9 has no market_temp_index.
BigStates == <<"Alaska", "Idaho", "Montana", "Nevada", "Oregon", "Utah",
               "Washington", "Wyoming">>
BigCities == <<"Clinton", "Franklin", "Madison", "Springfield">>

BigRow(i) ==
    LET d == IF i = 6 THEN 5 ELSE i
    IN  CsvRow(2, BigCities[((i - 1) % 4) + 1], BigStates[((i - 1) \div 4) + 1],
               Int2R(100000 + 10000 * d), Int2R(1000), Int2R(100),
               Int2R(20 + ((7 * d) % 13)),
               IF i = 9 THEN NaN ELSE Int2R(30 + ((3 * d) % 11)),
               Int2R(d % 5))

MinBigRows == TopN
MaxBigRows == 27

BigFiles ==
    { [columns |-> ExpectedCols \cup {"date"}, rows |-> [k \in 1..n |-> BigRow(k)]]
      : n \in MinBigRows..MaxBigRows }

InitBig == AppStart(BigFiles) /\ ApiIdle

NextBig ==
    \/ \E s \in { NameOrder[k] : k \in 1..Len(NameOrder) } : SelectState(s)
    \/ \E r \in { NameOrder[k] : k \in 1..Len(NameOrder) } : SelectRegion(r)
    \/ ClickGo

SpecBig == InitBig /\ [][NextBig]_vars


---------------------------------------------------------------------------
(* The app on a one-metro file: a listing priced around the metro's zhvi *)

ExampleFile ==
    [columns |-> ExpectedCols \cup {"date"},
     rows |-> << CsvRow(2, "Boise", "Idaho", Int2R(700000), Int2R(2500),
                        Int2R(100), Int2R(50), Int2R(7), Rat(3, 100)) >>]

\* List prices from 600000 upwards in the widget's steps of 5000.
ExampleSteps == 30
ExampleListPrices == { 600000 + 5000 * k : k \in 0..ExampleSteps }

InitExample == AppStart({ExampleFile}) /\ ApiIdle

NextExample ==
    \/ \E v \in ExampleListPrices : SetListPrice(v)
    \/ \E v \in SqftEntries : SetSqft(v)
    \/ ClickGo

SpecExample == InitExample /\ [][NextExample]_vars

---------------------------------------------------------------------------
(* The app on a two-metro file: every bedroom and bathroom count the     *)
(* widgets accept                                                        *)

ListingFile ==
    [columns |-> ExpectedCols \cup {"date"},
     rows |-> << CsvRow(2, "Boise", "Idaho", Int2R(100000), Int2R(1000),
                        Int2R(100), Int2R(50), Int2R(10), Int2R(5)),
                 CsvRow(2, "Clinton", "Idaho", Int2R(100000), Int2R(1000),
                        Int2R(100), Int2R(50), Zero, Zero) >>]

\* beds: 0..10 in steps of 1; baths: 0.0..10.0 in steps of 0.5.
ListingBeds  == BedsMin..BedsMax
ListingBaths == { Rat(k, 2) : k \in (2 * BathsMin[1])..(2 * BathsMax[1]) }

InitListing == AppStart({ListingFile}) /\ ApiIdle

NextListing ==
    \/ \E r \in { NameOrder[k] : k \in 1..Len(NameOrder) } : SelectRegion(r)
    \/ \E v \in ListingBeds : SetBeds(v)
    \/ \E v \in ListingBaths : SetBaths(v)
    \/ ClickGo

SpecListing == InitListing /\ [][NextListing]_vars

---------------------------------------------------------------------------
(* The Flask backend *)

\* A JSON value of a request field: a number or null.
JNum(i) == [isnull |-> FALSE, v |-> i]
JNull   == [isnull |-> TRUE, v |-> 0]

\* float(x), int(x) on a request field raise TypeError on None.
Converts(x) == ~x.isnull

\* int() of a float: truncation toward zero.
PyInt(x) == IF x[1] < 0 THEN -((-x[1]) \div x[2]) ELSE x[1] \div x[2]

\* The property types the label encoder was fitted on (the training data's).
KnownPropertyTypes == {"House", "Condo", "Townhouse"}

\* Request bodies of /api/analyze-property in the model.
PriceEntries == {JNull, JNum(0), JNum(400000)}
SqftFields   == {JNum(0), JNum(1800)}
TypeEntries  == {"House", "Single Family"}
\* What the predictor returns: -25% .. +20% of a 400000 listing.
Predictions  == {300000, 320000, 340000, 360000, 380000, 400000, 420000,
                 440000, 460000, 480000}

PropertyData == [price : PriceEntries, sqft : SqftFields, property_type : TypeEntries]

MaxRequests == 3

\* The tiers with >= in place of >.
Tier_Inclusive(price_diff_pct) ==
    IF RGe(price_diff_pct, Int2R(15))
    THEN [deal_score |-> Rat(95, 10), pricing_assessment |-> "significantly_underpriced"]
    ELSE IF RGe(price_diff_pct, Int2R(5))
    THEN [deal_score |-> Rat(80, 10), pricing_assessment |-> "underpriced"]
    ELSE IF RGe(price_diff_pct, Int2R(-5))
    THEN [deal_score |-> Rat(65, 10), pricing_assessment |-> "fairly_priced"]
    ELSE IF RGe(price_diff_pct, Int2R(-15))
    THEN [deal_score |-> Rat(40, 10), pricing_assessment |-> "overpriced"]
    ELSE [deal_score |-> Rat(20, 10), pricing_assessment |-> "significantly_overpriced"]

\* Lines 172-186: the deal score and the label for price_diff_pct.
Tier(price_diff_pct) ==
    IF RGt(price_diff_pct, Int2R(15))
    THEN [deal_score |-> Rat(95, 10), pricing_assessment |-> "significantly_underpriced"]
    ELSE IF RGt(price_diff_pct, Int2R(5))
    THEN [deal_score |-> Rat(80, 10), pricing_assessment |-> "underpriced"]
    ELSE IF RGt(price_diff_pct, Int2R(-5))
    THEN [deal_score |-> Rat(65, 10), pricing_assessment |-> "fairly_priced"]
    ELSE IF RGt(price_diff_pct, Int2R(-15))
    THEN [deal_score |-> Rat(40, 10), pricing_assessment |-> "overpriced"]
    ELSE [deal_score |-> Rat(20, 10), pricing_assessment |-> "significantly_overpriced"]

\* generate_explanation: which of the four texts is returned.
generate_explanation(price_diff_pct) ==
    IF RGt(price_diff_pct, Int2R(10)) THEN "great deal"
    ELSE IF RGt(price_diff_pct, Zero) THEN "fairly priced with slight upside"
    ELSE IF RGt(price_diff_pct, Int2R(-10)) THEN "priced close to market value"
    ELSE "appears overpriced"

PriceDiffPct(predicted_value, listing_price) ==
    RMul(RDiv(RSub(predicted_value, listing_price), listing_price), Int2R(100))

\* fallback_analysis: int(price) and int(sqft) raise on None, and nothing
\* catches that.
FallbackRaises(pd) == ~Converts(pd.price) \/ ~Converts(pd.sqft)

fallback_analysis(pd) ==
    LET price == pd.price.v
        area  == pd.sqft.v
        price_per_sqft == IF area > 0 THEN RDiv(Int2R(price), Int2R(area)) ELSE Zero
    IN  [kind |-> "analysis", source |-> "fallback",
         predicted_value |-> RMul(Int2R(price), Rat(98, 100)),
         deal_score |-> Rat(50, 10),
         explanation |-> "Basic analysis - custom AI model not loaded",
         pricing_assessment |-> "unknown",
         price_per_sqft |-> price_per_sqft]

Failed500 == [kind |-> "error", status |-> 500]

ModelAnalysis(pd, predicted_value) ==
    LET listing_price  == Int2R(pd.price.v)
        price_diff_pct == PriceDiffPct(Int2R(predicted_value), listing_price)
        area           == pd.sqft.v
    IN  [kind |-> "analysis", source |-> "model",
         predicted_value |-> Int2R(PyInt(Int2R(predicted_value))),
         deal_score |-> Tier(price_diff_pct).deal_score,
         explanation |-> generate_explanation(price_diff_pct),
         pricing_assessment |-> Tier(price_diff_pct).pricing_assessment,
         price_per_sqft |-> IF area > 0
                            THEN Int2R(PyInt(RDiv(listing_price, Int2R(area))))
                            ELSE Zero]

\* The except branch of analyze_property, and the not-loaded branch.
Fallback(pd, why) ==
    /\ locals' = [path |-> why, property_data |-> pd]
    /\ response' = IF FallbackRaises(pd) THEN Failed500 ELSE fallback_analysis(pd)

\* predict_house_price: load_trained_model() reads the artifacts again.
load_trained_model_reads == 1

\* POST /api/analyze-property with a body that reaches analyzer.analyze_property.
AnalyzeProperty(pd) ==
    /\ n_requests < MaxRequests
    /\ n_requests' = n_requests + 1
    /\ UNCHANGED <<artifacts, model_loaded>>
    /\ UNCHANGED appVars
    /\ IF ~model_loaded
       THEN Fallback(pd, "not loaded") /\ UNCHANGED artifact_loads
       ELSE IF ~Converts(pd.sqft)
       THEN Fallback(pd, "except") /\ UNCHANGED artifact_loads
       ELSE IF ~artifacts
       THEN Fallback(pd, "except") /\ UNCHANGED artifact_loads
       ELSE /\ artifact_loads' = artifact_loads + load_trained_model_reads
            /\ IF \/ pd.property_type \notin KnownPropertyTypes
                  \/ ~Converts(pd.price)
                  \/ pd.price.v = 0
               THEN Fallback(pd, "except")
               ELSE \E predicted_value \in Predictions :
                      /\ locals' = [path |-> "model", property_data |-> pd,
                                    predicted_value |-> Int2R(predicted_value),
                                    listing_price |-> Int2R(pd.price.v),
                                    price_diff_pct |->
                                        PriceDiffPct(Int2R(predicted_value),
                                                     Int2R(pd.price.v))]
                      /\ response' = ModelAnalysis(pd, predicted_value)

\* POST /api/analyze-property answered before the analyzer is called: neither
\* zillow_url nor address in the body (400), or the scraper returned None (404).
AnalyzeRejected(code) ==
    /\ n_requests < MaxRequests
    /\ n_requests' = n_requests + 1
    /\ locals' = [path |-> "none"]
    /\ response' = [kind |-> "error", status |-> code]
    /\ UNCHANGED <<artifacts, model_loaded, artifact_loads>>
    /\ UNCHANGED appVars

\* POST /api/neighborhood-trends: fixed mock data.
NeighborhoodTrends ==
    /\ locals' = [path |-> "none"]
    /\ response' = [kind |-> "trends"]
    /\ UNCHANGED <<artifacts, model_loaded, artifact_loads, n_requests>>
    /\ UNCHANGED appVars

\* POST /api/train-model: train_model() saves the three files, or raises.
TrainModel(ok) ==
    /\ artifacts' = (artifacts \/ ok)
    /\ locals' = [path |-> "none"]
    /\ response' = IF ok THEN [kind |-> "trained"] ELSE Failed500
    /\ UNCHANGED <<model_loaded, artifact_loads, n_requests>>
    /\ UNCHANGED appVars

\* The Streamlit variables while only the backend runs: no file, nothing shown.
AppIdle ==
    /\ csv = [columns |-> ExpectedCols \cup {"date"}, rows |-> <<>>]
    /\ metro = <<>>
    /\ latest_date = NoDate
    /\ state = NA
    /\ region = NA
    /\ list_price = ListPriceDefault
    /\ sqft = SqftDefault
    /\ beds = BedsDefault
    /\ baths = BathsDefault
    /\ script = "error"
    /\ valuation = NoValuation
    /\ tmp = NoTable
    /\ shown = NoTable

\* The process start: analyzer = CustomAIAnalyzer() loads the artifacts when
\* the files are there.
ApiInit ==
    /\ artifacts \in BOOLEAN
    /\ model_loaded = artifacts
    /\ artifact_loads = IF artifacts THEN 1 ELSE 0
    /\ n_requests = 0
    /\ locals = [path |-> "none"]
    /\ response = [kind |-> "none"]

InitApi == AppIdle /\ ApiInit

NextApi ==
    \/ \E pd \in PropertyData : AnalyzeProperty(pd)
    \/ \E code \in {400, 404} : AnalyzeRejected(code)
    \/ NeighborhoodTrends
    \/ \E ok \in BOOLEAN : TrainModel(ok)

SpecApi == InitApi /\ [][NextApi]_vars

---------------------------------------------------------------------------
(* Properties *)

Rows(t) == 1..Len(t)
SelectedRow == Matching(metro, state, region)[1]

\* C1: in every valuation shown, deal_score is edge / 0.05 clamped to [0, 1],
\* with edge = (fair_value - list_price) / list_price: the score lies in
\* [0, 1], is 1 when edge >= 5% and 0 when edge <= 0.
C1_DealScoreClamped ==
    valuation.shown =>
        LET e == valuation.edge
            s == valuation.deal_score
            lp == Int2R(valuation.list_price)
        IN  /\ RLe(Zero, s) /\ RLe(s, One)
            /\ IsFinite(valuation.fair_value) =>
                   RMul(e, lp) = RSub(valuation.fair_value, lp)
            /\ RGe(RMul(e, Int2R(100)), Int2R(5)) => s = One
            /\ RLe(e, Zero) => s = Zero
            /\ (RLt(Zero, e) /\ RLt(RMul(e, Int2R(100)), Int2R(5))) =>
                   s = RMul(e, Int2R(20))

\* A valuation whose edge lies strictly between 0 and 5%, scored in between.
C1_Witness ==
    /\ valuation.shown
    /\ RLt(Zero, valuation.edge)
    /\ RLt(valuation.edge, Rat(5, 100))
    /\ RLt(Zero, valuation.deal_score)
    /\ RLt(valuation.deal_score, One)

\* C2: in the displayed ranking no row without a composite score stands
\* before a row with one.
C2_UndefinedScoresLast ==
    \A i, j \in Rows(shown) :
        (i < j /\ IsNaN(shown[i].score)) => IsNaN(shown[j].score)

\* A ranking with a scored row and, after it, the zori = 0 metro without score.
C2_Witness ==
    \E i, j \in Rows(shown) :
        /\ ~IsNaN(shown[i].score)
        /\ IsNaN(shown[j].score)
        /\ shown[j].zori = Zero

\* C3: the metro table holds one record per (RegionName, StateName).
C3_OneRecordPerKey ==
    \A i, j \in Rows(metro) :
        (metro[i].RegionName = metro[j].RegionName
            /\ metro[i].StateName = metro[j].StateName) => i = j

\* C4: price_to_rent and sales_inventory_ratio are missing where the divisor
\* is zero or an operand is missing, are the quotient otherwise, and are never
\* infinite, in the scored table and in the displayed one.
C4_RatiosNeverInfinite ==
    /\ \A k \in Rows(tmp) :
        LET m == metro[k]
            t == tmp[k]
        IN  /\ ~IsInf(t.price_to_rent) /\ ~IsInf(t.sales_inventory_ratio)
            /\ ~IsInf(t.score)
            /\ IF m.zori = Zero \/ IsNaN(m.zori) \/ IsNaN(m.zhvi)
               THEN IsNaN(t.price_to_rent)
               ELSE RMul(t.price_to_rent, m.zori) = m.zhvi
            /\ IF m.inventory = Zero \/ IsNaN(m.inventory) \/ IsNaN(m.sales_count)
               THEN IsNaN(t.sales_inventory_ratio)
               ELSE RMul(t.sales_inventory_ratio, m.inventory) = m.sales_count
    /\ \A k \in Rows(shown) :
        /\ ~IsInf(shown[k].price_to_rent)
        /\ ~IsInf(shown[k].sales_inventory_ratio)
        /\ ~IsInf(shown[k].score)

\* A ranked table with a metro of positive value and zero rent, and one of
\* positive sales and zero inventory.
C4_Witness ==
    /\ script = "ok"
    /\ \E k \in Rows(tmp) :
        /\ metro[k].zori = Zero /\ RGt(metro[k].zhvi, Zero)
        /\ metro[k].inventory = Zero /\ RGt(metro[k].sales_count, Zero)
        /\ IsNaN(tmp[k].price_to_rent)

\* C5: with no model loaded at startup, every request that reaches
\* analyze_property is answered with the fallback result: 98% of the listing
\* price, deal score 5.0, pricing_assessment "unknown".
C5_FallbackNeverFails ==
    (~model_loaded /\ locals.path # "none") =>
        /\ response.kind = "analysis"
        /\ response.source = "fallback"
        /\ response.predicted_value =
               RMul(Int2R(locals.property_data.price.v), Rat(98, 100))
        /\ response.deal_score = Int2R(5)
        /\ response.pricing_assessment = "unknown"

\* C6: the model-based result's deal score and label are the tier of
\* pct_diff = (predicted - listing) / listing * 100 by the strict thresholds
\* 15, 5, -5, -15, and the deal score is non-decreasing in pct_diff.
PctSamples == { Int2R(i) : i \in {-20, -15, -10, -5, 0, 5, 10, 15, 20} }
                \cup { Rat(i, 10) : i \in {-151, -149, -51, -49, 49, 51, 149, 151} }

C6_TierOf(predicted, listing) ==
    LET d == 100 * (predicted - listing)
    IN  CASE d > 15 * listing  -> <<Rat(19, 2), "significantly_underpriced">>
          [] d <= 15 * listing /\ d > 5 * listing -> <<Int2R(8), "underpriced">>
          [] d <= 5 * listing /\ d > (-5) * listing -> <<Rat(13, 2), "fairly_priced">>
          [] d <= (-5) * listing /\ d > (-15) * listing -> <<Int2R(4), "overpriced">>
          [] d <= (-15) * listing -> <<Int2R(2), "significantly_overpriced">>

C6_FiveTiers ==
    /\ locals.path = "model" =>
        LET predicted == locals.predicted_value[1]
            listing   == locals.listing_price[1]
        IN  /\ listing > 0
            /\ RMul(locals.price_diff_pct, Int2R(listing)) =
                   Int2R(100 * (predicted - listing))
            /\ <<response.deal_score, response.pricing_assessment>> =
                   C6_TierOf(predicted, listing)
            /\ <<Tier(locals.price_diff_pct).deal_score,
                 Tier(locals.price_diff_pct).pricing_assessment>> =
                   C6_TierOf(predicted, listing)
    /\ Tier(Int2R(20)).deal_score = Rat(19, 2)
    /\ Tier(Int2R(-20)).deal_score = Int2R(2)
    /\ Tier(Zero).pricing_assessment = "fairly_priced"
    /\ \A p, q \in PctSamples :
           RLe(p, q) => RLe(Tier(p).deal_score, Tier(q).deal_score)

\* A model-based answer for pct_diff exactly 15: the lower tier, 8.0.
C6_Witness ==
    /\ locals.path = "model"
    /\ locals.price_diff_pct = Int2R(15)
    /\ response.deal_score = Int2R(8)
    /\ response.pricing_assessment = "underpriced"

\* C7: serving an analyze request reads no model artifact from disk.
C7_LoadedOnceAtStartup ==
    [][n_requests' # n_requests => artifact_loads' = artifact_loads]_vars

\* C8: heat_factor is 1 + 0.03 * (market_temp_index / 10) and growth_factor is
\* 1 + 0.02 * zhvi_growth when the signal is present, and each is exactly 1
\* when it is missing; with both missing fair_value = zhvi * size_factor *
\* feature_factor.
C8_MissingSignalsNeutral ==
    valuation.shown =>
        LET mti == SelectedRow.market_temp_index
            g   == SelectedRow.zhvi_growth
            h   == valuation.market_heat_factor
            gf  == valuation.growth_factor
        IN  /\ IF IsNaN(mti) THEN h = One
               ELSE RMul(RSub(h, One), Int2R(1000)) = RMul(Int2R(3), mti)
            /\ IF IsNaN(g) THEN gf = One
               ELSE RMul(RSub(gf, One), Int2R(100)) = RMul(Int2R(2), g)
            /\ (IsNaN(mti) /\ IsNaN(g)) =>
                   valuation.fair_value =
                       RMul(RMul(valuation.base_zhvi, valuation.size_factor),
                            valuation.feature_factor)

\* A valuation for a metro with both signals missing and a known baseline.
C8_Witness ==
    /\ valuation.shown
    /\ IsNaN(SelectedRow.market_temp_index)
    /\ IsNaN(SelectedRow.zhvi_growth)
    /\ IsFinite(valuation.fair_value)
    /\ valuation.market_heat_factor = One
    /\ valuation.growth_factor = One

\* C9: the list price is never 0 (the widget holds it at 50000 or more), so no
\* valuation divides by a list_price of 0.
C9_ListPriceNeverZero ==
    /\ list_price # 0
    /\ list_price >= ListPriceMin
    /\ valuation.shown =>
        /\ valuation.list_price # 0
        /\ valuation.list_price >= ListPriceMin
        /\ ~IsInf(valuation.edge)

\* A valuation at the smallest list price the widget takes.
C9_Witness ==
    /\ valuation.shown
    /\ valuation.list_price = ListPriceMin
    /\ IsFinite(valuation.edge)

\* C10: the composite score is 0.40 * (1 - N(price_to_rent)) + 0.25 *
\* N(zhvi_growth) + 0.20 * N(market_temp_index) + 0.15 *
\* N(sales_inventory_ratio), N(x) = (x - min) / (max - min) over the defined
\* values of the column in the table; the weights sum to 1.
C10_Defined(c) == { tmp[k][c] : k \in Rows(tmp) } \ {NaN}
C10_Lo(c) == CHOOSE m \in C10_Defined(c) : \A v \in C10_Defined(c) : RLe(m, v)
C10_Hi(c) == CHOOSE m \in C10_Defined(c) : \A v \in C10_Defined(c) : RLe(v, m)
C10_N(c, x) ==
    IF IsNaN(x) \/ C10_Defined(c) = {} \/ C10_Lo(c) = C10_Hi(c) THEN NaN
    ELSE RDiv(RSub(x, C10_Lo(c)), RSub(C10_Hi(c), C10_Lo(c)))
C10_Weighted(w, x) == IF IsNaN(x) THEN NaN ELSE RMul(Rat(w, 100), x)
C10_Sum4(a, b, c, d) ==
    IF IsNaN(a) \/ IsNaN(b) \/ IsNaN(c) \/ IsNaN(d) THEN NaN
    ELSE RAdd(a, RAdd(b, RAdd(c, d)))

C10_CompositeScore ==
    /\ RAdd(RAdd(Rat(40, 100), Rat(25, 100)), RAdd(Rat(20, 100), Rat(15, 100))) = One
    /\ \A k \in Rows(tmp) :
        tmp[k].score =
            C10_Sum4(
                C10_Weighted(40, RSub(One, C10_N("price_to_rent", tmp[k].price_to_rent))),
                C10_Weighted(25, C10_N("zhvi_growth", tmp[k].zhvi_growth)),
                C10_Weighted(20, C10_N("market_temp_index", tmp[k].market_temp_index)),
                C10_Weighted(15, C10_N("sales_inventory_ratio",
                                       tmp[k].sales_inventory_ratio)))

\* A table with a row scored strictly between 0 and 1.
C10_Witness ==
    \E k \in Rows(tmp) : RLt(Zero, tmp[k].score) /\ RLt(tmp[k].score, One)

---------------------------------------------------------------------------
\* C11: a row of the ranking table in which price_to_rent, zhvi_growth,
\* market_temp_index or sales_inventory_ratio is undefined has an undefined
\* score, in the table and in the rows displayed from it.
C11_NoPartialScore ==
    /\ \A k \in Rows(tmp) :
         (\E c \in ScoreInputs : IsNaN(tmp[k][c])) => IsNaN(tmp[k].score)
    /\ \A k \in Rows(shown) :
         (\E c \in ScoreInputs : IsNaN(shown[k][c])) => IsNaN(shown[k].score)

\* A table with a scored row and a row that lacks only some of the inputs.
C11_Witness ==
    /\ \E k \in Rows(tmp) : ~IsNaN(tmp[k].score)
    /\ \E k \in Rows(tmp) :
         /\ \E c \in ScoreInputs : IsNaN(tmp[k][c])
         /\ \E c \in ScoreInputs : ~IsNaN(tmp[k][c])
         /\ IsNaN(tmp[k].score)

---------------------------------------------------------------------------
\* C12: the displayed ranking is in descending score order, has
\* min(25, number of rows) rows, and no row left out of it has a defined
\* score greater than the score of a displayed row.
RowKey(r) == <<r.RegionName, r.StateName>>
C12_Displayed == { k \in Rows(tmp) : \E j \in Rows(shown) : RowKey(shown[j]) = RowKey(tmp[k]) }

C12_TopRows ==
    script = "ok" =>
        /\ \A i, j \in Rows(shown) : i < j => ~RLt(shown[i].score, shown[j].score)
        /\ Len(shown) = IF Len(tmp) < TopN THEN Len(tmp) ELSE TopN
        /\ Cardinality(C12_Displayed) = Len(shown)
        /\ \A k \in Rows(tmp) \ C12_Displayed : \A j \in C12_Displayed :
               ~RLt(tmp[j].score, tmp[k].score)

\* More than 25 scored metros: a scored row is left out.
C12_Witness ==
    /\ script = "ok"
    /\ Len(shown) = TopN
    /\ \E k \in Rows(tmp) \ C12_Displayed : ~IsNaN(tmp[k].score)
    /\ \E i, j \in Rows(shown) : RLt(shown[j].score, shown[i].score)

---------------------------------------------------------------------------
\* C13: multiplying every value of one input column of the ranking table
\* (price_to_rent, zhvi_growth, market_temp_index or sales_inventory_ratio)
\* by the same positive constant leaves the order of the metros unchanged.
C13_Scales == {Rat(1, 2), Int2R(3), Int2R(100)}

\* The table of lines 107-109 with column c multiplied by f.
C13_Scaled(c, f) ==
    [k \in Rows(metro) |-> [Derived(metro[k]) EXCEPT ![c] = RMul(@, f)]]

\* The orders in which sort_values may leave the metros of the scored table t.
C13_Orders(t) == { [k \in Rows(s) |-> RowKey(s[k])] : s \in SortValues(t) }

C13_ScaleInvariant ==
    script = "ok" =>
        \A c \in ScoreInputs, f \in C13_Scales :
            \A t \in {ScoredRows(C13_Scaled(c, f))} :
                C13_Orders(t) = C13_Orders(tmp)

\* A table sort_values has to reorder: a later row outscores an earlier one.
C13_Witness ==
    /\ script = "ok"
    /\ \E i, j \in Rows(tmp) : i < j /\ RLt(tmp[i].score, tmp[j].score)

---------------------------------------------------------------------------
\* C14: latest_date is the greatest date of the file, and every metro record
\* is the record of a file row of that date.
C14_LatestMonthOnly ==
    /\ \A k \in Rows(csv.rows) : csv.rows[k].date <= latest_date
    /\ IF csv.rows = <<>> THEN latest_date = NoDate
       ELSE \E k \in Rows(csv.rows) : csv.rows[k].date = latest_date
    /\ \A i \in Rows(metro) :
         \E k \in Rows(csv.rows) :
            /\ csv.rows[k].date = latest_date
            /\ metro[i] = MetroRecord(csv.rows[k], csv.columns)

\* A file with an earlier month whose row is not among the metro records.
C14_Witness ==
    /\ metro # <<>>
    /\ \E k \in Rows(csv.rows) :
         /\ csv.rows[k].date < latest_date
         /\ \A i \in Rows(metro) : metro[i] # MetroRecord(csv.rows[k], csv.columns)

---------------------------------------------------------------------------
\* C15: no metro record lacks its RegionName or its StateName.
C15_KeysPresent ==
    \A i \in Rows(metro) : metro[i].RegionName # NA /\ metro[i].StateName # NA

\* A latest-month row without RegionName is dropped next to one that is kept;
\* the files without a StateName column have every row dropped.
C15_Witness ==
    /\ metro # <<>>
    /\ \E k \in Rows(csv.rows) :
         /\ csv.rows[k].date = latest_date
         /\ csv.rows[k].RegionName = NA
         /\ \A i \in Rows(metro) : metro[i].zhvi # csv.rows[k].zhvi

---------------------------------------------------------------------------
\* C16: the feature factor of a valuation is
\* 1 + 0.035 * (beds - 3) + 0.05 * (baths - 2.0), and exactly 1.0 at
\* beds = 3, baths = 2.0.
C16_FeatureFactor ==
    valuation.shown =>
        /\ RMul(valuation.feature_factor, Int2R(1000))
             = RAdd(Int2R(1000 + 35 * (beds - 3)),
                    RMul(Int2R(50), RSub(baths, Int2R(2))))
        /\ (beds = 3 /\ baths = Int2R(2)) => valuation.feature_factor = One

\* A valuation of a listing with 4 beds and 3 baths.
C16_Witness ==
    /\ valuation.shown
    /\ beds = 4 /\ baths = Int2R(3)
    /\ valuation.feature_factor = Rat(1085, 1000)

---------------------------------------------------------------------------
\* The valuation of the listing sqft = 1400, beds = 3, baths = 2,
\* list_price = 700000 in the metro zhvi = 700000, market_temp_index = 7,
\* zhvi_growth = 0.03 is on display.
C17_Example ==
    /\ valuation.shown
    /\ SelectedRow.zhvi = Int2R(700000)
    /\ SelectedRow.market_temp_index = Int2R(7)
    /\ SelectedRow.zhvi_growth = Rat(3, 100)
    /\ sqft = 1400 /\ beds = 3 /\ baths = Int2R(2) /\ list_price = 700000

C17_Within(x, lo, hi) == RLe(lo, x) /\ RLe(x, hi)

\* C17 as stated: the example gives growth_factor = 1.06, heat_factor =
\* 1.021, feature_factor = 1.0, a fair value of about 721,800, an edge of
\* about 3.1% and a deal score of about 0.62, strictly between 0 and 1.
C17_AsStated ==
    C17_Example =>
        /\ valuation.growth_factor = Rat(106, 100)
        /\ valuation.market_heat_factor = Rat(1021, 1000)
        /\ valuation.feature_factor = One
        /\ C17_Within(valuation.fair_value, Int2R(719000), Int2R(724000))
        /\ C17_Within(valuation.edge, Rat(28, 1000), Rat(34, 1000))
        /\ RLt(Zero, valuation.deal_score) /\ RLt(valuation.deal_score, One)

\* C17, amended: the example gives growth_factor = 1.0006, heat_factor =
\* 1.021, feature_factor = 1.0, a fair value of about 680,000 (below the list
\* price), an edge of about -3% and a deal score of 0.
C17_WorkedExample ==
    C17_Example =>
        /\ valuation.growth_factor = Rat(10006, 10000)
        /\ valuation.market_heat_factor = Rat(1021, 1000)
        /\ valuation.feature_factor = One
        /\ C17_Within(valuation.fair_value, Int2R(678000), Int2R(682000))
        /\ C17_Within(valuation.edge, Rat(-32, 1000), Rat(-26, 1000))
        /\ valuation.deal_score = Zero

C17_Witness == C17_Example /\ script = "ok"

---------------------------------------------------------------------------
\* C18: the size factor is strictly increasing in sqft and is 1.0 at
\* sqft = 1500: the factor of a valuation lies strictly above the factor of
\* every smaller sample area and strictly below that of every larger one.
C18_SizeFactorIncreasing ==
    valuation.shown =>
        /\ sqft = 1500 => valuation.size_factor = One
        /\ \A a \in SizeSamples :
             /\ a < sqft => RLt(size_adjustment(a), valuation.size_factor)
             /\ a > sqft => RLt(valuation.size_factor, size_adjustment(a))
        /\ \A a, b \in SizeSamples :
             a < b => RLt(size_adjustment(a), size_adjustment(b))

\* A valuation at the anchor area, between smaller and larger samples.
C18_Witness ==
    /\ valuation.shown
    /\ sqft = 1500
    /\ valuation.size_factor = One
    /\ \E a, b \in SizeSamples : a < sqft /\ sqft < b

---------------------------------------------------------------------------
\* C19: no selection, listing input or click changes the loaded metro table,
\* which never carries the derived columns; and none of them changes the
\* ranking table or the set of rows displayed from it.
C19_Stateless ==
    [][ /\ metro' = metro
        /\ \A k \in Rows(metro') : DOMAIN metro'[k] = ExpectedCols
        /\ (script = "ok" /\ script' = "ok") =>
              /\ tmp' = tmp
              /\ { shown'[k] : k \in Rows(shown') } = { shown[k] : k \in Rows(shown) }
      ]_vars

\* A listing scored after the state selection and the list price were changed,
\* under a ranking of several metros.
C19_Witness ==
    /\ script = "ok"
    /\ valuation.shown
    /\ state = "Oregon" /\ InSeq("Washington", States(metro))
    /\ list_price # ListPriceDefault
    /\ Len(tmp) >= 2

---------------------------------------------------------------------------
\* C20: in every non-empty ranking table, a row whose price_to_rent,
\* zhvi_growth, market_temp_index and sales_inventory_ratio are all defined
\* has a defined score.
C20_DefinedInputsDefinedScore ==
    \A k \in Rows(tmp) :
        (\A c \in ScoreInputs : ~IsNaN(tmp[k][c])) => ~IsNaN(tmp[k].score)

---------------------------------------------------------------------------
\* C21: a deal score of 1.0 is shown only for a defined fair value at least
\* 5% above the list price; with an unknown zhvi the fair value, the edge and
\* the deal score are unknown, and the deal score is no number above 0.
C21_UnknownStaysUnknown ==
    valuation.shown =>
        /\ valuation.deal_score = One =>
              /\ IsFinite(valuation.fair_value)
              /\ RGe(valuation.fair_value,
                     RMul(Int2R(valuation.list_price), Rat(105, 100)))
        /\ IsNaN(valuation.base_zhvi) =>
              /\ IsNaN(valuation.fair_value)
              /\ IsNaN(valuation.edge)
              /\ ~RGt(valuation.deal_score, Zero)

---------------------------------------------------------------------------
\* C22: once the model artifacts are written, every analyze request with a
\* positive listing price (and a body the predictor can encode) is answered
\* with a model-based result, whether or not the process was started with a
\* trained model.
C22_TrainedModelIsUsed ==
    [][ ( /\ artifacts
          /\ n_requests' = n_requests + 1
          /\ locals'.path # "none"
          /\ Converts(locals'.property_data.price)
          /\ locals'.property_data.price.v > 0
          /\ Converts(locals'.property_data.sqft)
          /\ locals'.property_data.property_type \in KnownPropertyTypes )
        => /\ response'.kind = "analysis"
           /\ response'.source = "model"
           /\ response'.pricing_assessment # "unknown"
      ]_vars

---------------------------------------------------------------------------
\* C23: in a model-based result the explanation agrees with the label: an
\* overpriced or significantly_overpriced result carries the "appears
\* overpriced" text, and a fairly_priced result carries neither the "great
\* deal" nor the "appears overpriced" text.
C23_ExplanationAgrees ==
    (response.kind = "analysis" /\ response.source = "model") =>
        /\ response.pricing_assessment \in {"overpriced", "significantly_overpriced"}
              => response.explanation = "appears overpriced"
        /\ response.pricing_assessment = "fairly_priced"
              => response.explanation \notin {"great deal", "appears overpriced"}

---------------------------------------------------------------------------
\* C24: for every bedroom and bathroom count the widgets accept the feature
\* factor lies in [0.795, 1.645]; with a positive zhvi and non-negative
\* market_temp_index and zhvi_growth the fair value is strictly positive.
C24_FeatureFactorRange ==
    valuation.shown =>
        /\ RLe(Rat(795, 1000), valuation.feature_factor)
        /\ RLe(valuation.feature_factor, Rat(1645, 1000))
        /\ RGt(valuation.feature_factor, Zero)
        /\ ( /\ RGt(valuation.base_zhvi, Zero)
             /\ RGe(SelectedRow.market_temp_index, Zero)
             /\ RGe(SelectedRow.zhvi_growth, Zero) )
           => RGt(valuation.fair_value, Zero)

\* The valuation of a listing without bedrooms and bathrooms.
C24_Witness ==
    /\ valuation.shown
    /\ beds = BedsMin /\ baths = BathsMin
    /\ valuation.feature_factor = Rat(795, 1000)
    /\ RGt(valuation.fair_value, Zero)

=============================================================================
